---- MODULE Spec2Model ----
(***************************************************************************)
(* Model of translator_bot.py: module start-up, main(), the dispatcher's   *)
(* handler table and the four handlers start, list_languages,              *)
(* direct_translate and translate_command_reply.                           *)
(*                                                                         *)
(* A text is a sequence of characters.  The effects of one handler run are *)
(* recorded, in program order, in the sequence `events`: calls of          *)
(* translator.translate, calls of reply_text, calls of delete_message,     *)
(* each with its arguments and whether it completed or raised.             *)
(***************************************************************************)
EXTENDS Integers, Sequences, FiniteSets, TLC

VARIABLES pc, TELEGRAM_TOKEN, translator, handlers, update, handler, events, raised

vars == <<pc, TELEGRAM_TOKEN, translator, handlers, update, handler, events, raised>>

(* ------------------------------ bounds --------------------------------- *)

\* longest text of an incoming text message
MaxLen == 5
\* longest language code of the catalog
MaxCodeLen == 4
\* longest argument list of an incoming command
MaxArgs == 2

(* ------------------------------ texts ---------------------------------- *)

None == "None"

\* the lower-case letters language codes are made of, and the characters of
\* incoming texts: a letter of the codes, a lower-case letter of no code, an
\* upper-case letter, the space and the separator
CodeLetters == {"e", "n"}
Chars == {"e", "x", "E", " ", ":"}

RECURSIVE Strings(_, _)
Strings(alphabet, n) ==
    IF n = 0 THEN {<<>>}
    ELSE LET shorter == Strings(alphabet, n - 1)
         IN  shorter \cup {Append(s, c) : s \in {t \in shorter : Len(t) = n - 1}, c \in alphabet}

\* str.lower(), character by character
LowerChar(c) == IF c = "E" THEN "e" ELSE c

lower(s) == [i \in 1..Len(s) |-> LowerChar(s[i])]

IsSpace(c) == c = " "

RECURSIVE lstrip(_)
lstrip(s) == IF s # <<>> /\ IsSpace(Head(s)) THEN lstrip(Tail(s)) ELSE s

RECURSIVE rstrip(_)
rstrip(s) ==
    IF s # <<>> /\ IsSpace(s[Len(s)]) THEN rstrip(SubSeq(s, 1, Len(s) - 1)) ELSE s

\* str.strip()
strip(s) == rstrip(lstrip(s))

\* c in s
Contains(s, c) == \E i \in 1..Len(s) : s[i] = c

\* s.split(c, 1): the list of the text before the first c and the text after
\* it, or the list of s alone when c does not occur
split(s, c) ==
    IF Contains(s, c)
    THEN LET i == CHOOSE j \in 1..Len(s) : s[j] = c /\ \A k \in 1..(j - 1) : s[k] # c
         IN  <<SubSeq(s, 1, i - 1), SubSeq(s, i + 1, Len(s))>>
    ELSE <<s>>

(* ----------------------------- catalog --------------------------------- *)

\* googletrans.LANGUAGES, code -> name: its keys are lower-case codes.  The
\* catalog here is every non-empty code of at most MaxCodeLen code letters,
\* which is more than one chunk of list_languages
LANGUAGES == Strings(CodeLetters, MaxCodeLen) \ {<<>>}

RECURSIVE SeqOfSet(_)
SeqOfSet(S) ==
    IF S = {} THEN <<>>
    ELSE LET x == CHOOSE y \in S : TRUE IN <<x>> \o SeqOfSet(S \ {x})

\* LANGUAGES.items(), in the dictionary's order
LanguageItems == SeqOfSet(LANGUAGES)

\* what translated.src may be: a code of the catalog, or one it lacks
DetectedCodes == {<<"e">>, <<"x">>}

\* LANGUAGES.get(detected_lang_code, "Unknown")
detected_lang_name(src) == IF src \in LANGUAGES THEN src ELSE <<"Unknown">>

(* ------------------------------ effects -------------------------------- *)

Blank ==
    [op |-> "", kind |-> "", text |-> <<>>, code |-> <<>>, src |-> <<>>,
     items |-> <<>>, to |-> "", quote |-> TRUE, ok |-> TRUE]

\* translator.translate(text, dest=code), completing or raising
TranslateCall(text, code, ok) ==
    [Blank EXCEPT !.op = "translate", !.text = text, !.code = code, !.ok = ok]

\* update.message.reply_text(...) of a fixed message.  These calls stand
\* outside every try statement, or in an except clause: the file handles no
\* exception of theirs, and they are taken to complete.  The calls inside a
\* try statement (translate, the reply with the translation, delete_message)
\* complete or raise.
Reply(kind) == [Blank EXCEPT !.op = "send", !.kind = kind, !.to = "message"]

\* reply_text of the "... is not a valid language code" message
ReplyInvalid(code) == [Reply("invalid") EXCEPT !.code = code]

\* reply_text(response): the translation of text into code, detected as src
ReplyTranslation(to, text, code, src, ok) ==
    [Blank EXCEPT !.op = "send", !.kind = "translation", !.to = to, !.text = text,
                  !.code = code, !.src = detected_lang_name(src), !.ok = ok]

\* context.bot.delete_message(chat_id, message_id) of the command message
DeleteCall(ok) == [Blank EXCEPT !.op = "delete", !.ok = ok]

\* a handler run: its effects, and whether it left by an exception
Returned(evs) == [events |-> evs, raised |-> FALSE]

(* ------------------------------ updates -------------------------------- *)

ChatTypes == {"private", "group", "supergroup"}

\* the commands a message may start with; "help" has no handler
Commands == {"start", "languages", "translate", "help"}

\* the first word after a command, and the words that may follow it
ArgWords == Strings({"e", "x", "E"}, 2) \ {<<>>}

RECURSIVE Fill(_)
Fill(n) == IF n = 0 THEN <<>> ELSE <<<<"x">>>> \o Fill(n - 1)

\* context.args: the words after the command
ArgLists == {<<>>} \cup {<<w>> \o Fill(n) : w \in ArgWords, n \in 0..(MaxArgs - 1)}

\* message.reply_to_message: absent (None), or a message whose text is
\* absent (a photo, a sticker: the empty text stands for None, both are
\* false in a condition) or a text
NoMessage == [exists |-> FALSE, text |-> <<>>]
ReplyTargets == {NoMessage} \cup {[exists |-> TRUE, text |-> t] : t \in {<<>>, <<"e">>, <<" ", "x">>}}

Texts == Strings(Chars, MaxLen) \ {<<>>}

\* an incoming message: a command with its arguments, a text that is no
\* command, or a message without text (the empty text)
Updates ==
    {[chat |-> c, command |-> k, args |-> a, text |-> <<>>, reply |-> r] :
        c \in ChatTypes, k \in Commands, a \in ArgLists, r \in ReplyTargets}
    \cup
    {[chat |-> c, command |-> None, args |-> <<>>, text |-> t, reply |-> r] :
        c \in ChatTypes, t \in Texts \cup {<<>>},
        r \in {NoMessage, [exists |-> TRUE, text |-> <<"e">>]}}

NoUpdate == [chat |-> None, command |-> None, args |-> <<>>, text |-> <<>>, reply |-> NoMessage]

(* ------------------------------ handlers ------------------------------- *)

\* start: one reply_text of the welcome text
start(u) == {Returned(<<Reply("welcome")>>)}

chunk_size == 25

Min(a, b) == IF a < b THEN a ELSE b

\* range(0, n, step), as the 1-based first indices of the chunks
ChunkStarts(n, step) == {i \in 1..n : (i - 1) % step = 0}

\* "\n".join(chunk) for the chunk lang_list[i:i + chunk_size]
ReplyChunk(i) ==
    [Reply("languages") EXCEPT
        !.items = SubSeq(LanguageItems, i, Min(i + chunk_size - 1, Len(LanguageItems)))]

\* list_languages without the chunking: the whole list in one reply_text
list_languages_joined(u) == {Returned(<<[Reply("languages") EXCEPT !.items = LanguageItems]>>)}

\* list_languages: one reply_text per chunk of chunk_size catalog entries
list_languages(u) ==
    LET starts == ChunkStarts(Len(LanguageItems), chunk_size)
        nth(k) == CHOOSE i \in starts : Cardinality({j \in starts : j < i}) = k - 1
    IN  {Returned([k \in 1..Cardinality(starts) |-> ReplyChunk(nth(k))])}

\* the catalog look-up left out
NotInCatalog_skipped(code) == FALSE

\* lang_code not in LANGUAGES / target_lang not in LANGUAGES
NotInCatalog(code) == code \notin LANGUAGES

\* lang_code = parts[0].strip().lower()
lang_code(parts) == lower(strip(parts[1]))

\* the payload taken without strip()
text_to_translate_raw(parts) == parts[2]

\* text_to_translate = parts[1].strip()
text_to_translate(parts) == strip(parts[2])

\* direct_translate without its except clause: the exception leaves the handler
DirectExcept_reraise(evs) == [events |-> evs, raised |-> TRUE]

\* the except clause of direct_translate, entered after the effects evs: log,
\* then the generic reply
DirectExcept(evs) == Returned(evs \o <<Reply("failed")>>)

\* the try statement of direct_translate: translate, then reply with the
\* translation; an exception of either runs the except clause
DirectTry(text, code) ==
    {DirectExcept(<<TranslateCall(text, code, FALSE)>>)}
    \cup
    {Returned(<<TranslateCall(text, code, TRUE),
                ReplyTranslation("message", text, code, src, TRUE)>>) : src \in DetectedCodes}
    \cup
    {DirectExcept(<<TranslateCall(text, code, TRUE),
                    ReplyTranslation("message", text, code, src, FALSE)>>) :
        src \in DetectedCodes}

direct_translate(u) ==
    LET user_text == u.text
        parts == split(user_text, ":")
    IN  IF ~Contains(user_text, ":")
        THEN {Returned(<<Reply("usage")>>)}
        ELSE IF Len(parts) < 2 \/ strip(parts[2]) = <<>>
        THEN {Returned(<<Reply("empty")>>)}
        ELSE IF NotInCatalog(lang_code(parts))
        THEN {Returned(<<ReplyInvalid(lang_code(parts))>>)}
        ELSE DirectTry(text_to_translate(parts), lang_code(parts))

\* target_lang = context.args[0].lower()
target_lang(args) == lower(args[1])

\* the check of the replied-to text left out
NoText_skipped(original_message) == FALSE

\* not original_message.text
NoText(original_message) == original_message.text = <<>>

\* an outer except clause that also removes the command message
ReplyExcept_cleanup(evs) ==
    Returned(evs \o <<DeleteCall(TRUE), [Reply("failed") EXCEPT !.quote = FALSE]>>)

\* the outer except clause of translate_command_reply, entered after the
\* effects evs: log, then the generic message, sent without quoting
ReplyExcept(evs) == Returned(evs \o <<[Reply("failed") EXCEPT !.quote = FALSE]>>)

\* delete_message without its own try: its exception reaches the outer except
DeleteExcept_outer(evs) == ReplyExcept(evs)

\* the inner except clause, entered after delete_message raised: log only
DeleteExcept(evs) == Returned(evs)

\* the inner try statement, reached after the translation was sent
DeleteTry(evs) ==
    {Returned(evs \o <<DeleteCall(TRUE)>>), DeleteExcept(evs \o <<DeleteCall(FALSE)>>)}

\* the outer try statement of translate_command_reply: translate the
\* replied-to text, reply to the replied-to message, delete the command
ReplyTry(text, code) ==
    {ReplyExcept(<<TranslateCall(text, code, FALSE)>>)}
    \cup
    {ReplyExcept(<<TranslateCall(text, code, TRUE),
                   ReplyTranslation("original", text, code, src, FALSE)>>) :
        src \in DetectedCodes}
    \cup
    UNION {DeleteTry(<<TranslateCall(text, code, TRUE),
                       ReplyTranslation("original", text, code, src, TRUE)>>) :
        src \in DetectedCodes}

translate_command_reply(u) ==
    LET original_message == u.reply
    IN  IF ~original_message.exists
        THEN {Returned(<<Reply("needreply")>>)}
        ELSE IF u.args = <<>>
        THEN {Returned(<<Reply("needcode")>>)}
        ELSE IF NotInCatalog(target_lang(u.args))
        THEN {Returned(<<ReplyInvalid(target_lang(u.args))>>)}
        ELSE IF NoText(original_message)
        THEN {Returned(<<>>)}
        ELSE ReplyTry(original_message.text, target_lang(u.args))

(* ----------------------------- dispatcher ------------------------------ *)

\* the /translate handler registered without a chat-type filter
groups_any(chat) == TRUE

\* Filters.chat_type.groups
groups(chat) == chat \in {"group", "supergroup"}

\* the text handler registered without the private-chat filter
private_any(chat) == TRUE

\* Filters.chat_type.private
private(chat) == chat = "private"

\* Filters.text & ~Filters.command & Filters.chat_type.private
TextFilter(u) == u.text # <<>> /\ u.command = None /\ private(u.chat)

\* the handlers main() registers, in order
Registered == <<"start", "list_languages", "translate_command_reply", "direct_translate">>

\* whether a registered handler takes the update
Matches(h, u) ==
    CASE h = "start" -> u.command = "start"
      [] h = "list_languages" -> u.command = "languages"
      [] h = "translate_command_reply" -> u.command = "translate" /\ groups(u.chat)
      [] h = "direct_translate" -> TextFilter(u)
      [] OTHER -> FALSE

\* the dispatcher runs the first registered handler that takes the update
Dispatch(table, u) ==
    IF \E i \in 1..Len(table) : Matches(table[i], u)
    THEN table[CHOOSE i \in 1..Len(table) :
                  Matches(table[i], u) /\ \A j \in 1..(i - 1) : ~Matches(table[j], u)]
    ELSE None

\* the runs of the handler h on the update u
Run(h, u) ==
    CASE h = "start" -> start(u)
      [] h = "list_languages" -> list_languages(u)
      [] h = "translate_command_reply" -> translate_command_reply(u)
      [] h = "direct_translate" -> direct_translate(u)
      [] OTHER -> {Returned(<<>>)}

(* ------------------------------ program -------------------------------- *)

\* os.environ.get("TELEGRAM_TOKEN"): unset, empty, or a token
Environment == {None, "", "token"}

\* a test for None alone, which lets the empty token through
NoToken_unset(token) == token = None

\* not TELEGRAM_TOKEN
NoToken(token) == token = None \/ token = ""

Init ==
    /\ pc = "import"
    /\ TELEGRAM_TOKEN \in Environment
    /\ translator = None
    /\ handlers = <<>>
    /\ update = NoUpdate
    /\ handler = None
    /\ events = <<>>
    /\ raised = FALSE

\* module level: translator = Translator(), or exit() when it raises
InitTranslator ==
    /\ pc = "import"
    /\ \/ translator' = "Translator" /\ pc' = "main"
       \/ translator' = None /\ pc' = "exit"
    /\ UNCHANGED <<TELEGRAM_TOKEN, handlers, update, handler, events, raised>>

\* main(): return without a token or a translator, else register the handlers
\* and start polling
Main ==
    /\ pc = "main"
    /\ IF NoToken(TELEGRAM_TOKEN) \/ translator = None
       THEN pc' = "exit" /\ handlers' = handlers
       ELSE pc' = "polling" /\ handlers' = Registered
    /\ UNCHANGED <<TELEGRAM_TOKEN, translator, update, handler, events, raised>>

\* the dispatcher takes an update and runs the handler it selects
HandleUpdate ==
    /\ pc = "polling"
    /\ \E u \in Updates :
         LET h == Dispatch(handlers, u)
         IN  /\ update' = u
             /\ handler' = h
             /\ \E r \in Run(h, u) : events' = r.events /\ raised' = r.raised
    /\ pc' = "handled"
    /\ UNCHANGED <<TELEGRAM_TOKEN, translator, handlers>>

\* the dispatcher is done with the update and waits for the next one
NextUpdate ==
    /\ pc = "handled"
    /\ pc' = "polling"
    /\ update' = NoUpdate
    /\ handler' = None
    /\ events' = <<>>
    /\ raised' = FALSE
    /\ UNCHANGED <<TELEGRAM_TOKEN, translator, handlers>>

Next == InitTranslator \/ Main \/ HandleUpdate \/ NextUpdate

Spec == Init /\ [][Next]_vars

(* --------------------------- observations ------------------------------ *)

Handled == pc = "handled"

\* the calls of translator.translate of the run
GatewayCalls == SelectSeq(events, LAMBDA e : e.op = "translate")

\* the outgoing messages of the run: the reply_text calls that completed
Sent == SelectSeq(events, LAMBDA e : e.op = "send" /\ e.ok)

\* every reply_text call of the run, completed or not
SendCalls == SelectSeq(events, LAMBDA e : e.op = "send")

\* the delete_message calls of the run
DeleteCalls == SelectSeq(events, LAMBDA e : e.op = "delete")

SentKinds == {Sent[i].kind : i \in 1..Len(Sent)}

\* a private-chat text that is no command
PrivateText == update.command = None /\ update.text # <<>> /\ update.chat = "private"

\* the ways to read the text t as "<code>: <payload>", code a catalog key
Forms(t) ==
    {[code |-> SubSeq(t, 1, i - 1), payload |-> SubSeq(t, i + 2, Len(t))] :
        i \in {j \in 2..(Len(t) - 1) :
                 t[j] = ":" /\ t[j + 1] = " " /\ SubSeq(t, 1, j - 1) \in LANGUAGES}}

\* the run called the gateway once, for (text, code), and sent no usage,
\* empty-payload or invalid-code message
DirectBranch(text, code) ==
    /\ Len(GatewayCalls) = 1
    /\ GatewayCalls[1].text = text
    /\ GatewayCalls[1].code = code
    /\ SentKinds \cap {"usage", "empty", "invalid"} = {}

AllSpace(s) == \A i \in 1..Len(s) : IsSpace(s[i])

(* ------------------------------- C1 ------------------------------------ *)

\* C1 as stated: a private-chat text "<code>: <payload>", code a catalog key
\* and payload non-empty, is translated: one gateway call with target code
\* and input the payload trimmed, and no usage, empty-payload or
\* invalid-code message.
C1_AsStated ==
    (Handled /\ PrivateText) =>
        \A f \in Forms(update.text) :
            f.payload # <<>> => DirectBranch(strip(f.payload), f.code)

\* C1, amended: the same for a payload that has a character other than
\* white space; a payload of white space alone gets the empty-payload message.
C1_DirectBranch ==
    (Handled /\ PrivateText) =>
        \A f \in Forms(update.text) :
            /\ ~AllSpace(f.payload) => DirectBranch(strip(f.payload), f.code)
            /\ AllSpace(f.payload) => Sent = <<Reply("empty")>> /\ GatewayCalls = <<>>

C1_Witness ==
    /\ Handled /\ PrivateText
    /\ update.text = <<"e", ":", " ", " ", "x">>
    /\ DirectBranch(<<"x">>, <<"e">>)
    /\ SentKinds = {"translation"}

(* ------------------------------- C2 ------------------------------------ *)

\* every gateway call of the run has a catalog key for target
GatewayTargetsKnown == \A i \in 1..Len(GatewayCalls) : GatewayCalls[i].code \in LANGUAGES

\* the update is a request of direct_translate or translate_command_reply
\* that names a language code
NamesCode ==
    \/ handler = "direct_translate" /\ Contains(update.text, ":")
    \/ handler = "translate_command_reply" /\ update.args # <<>>

\* the code the request names, as the handler reads it
RequestCode ==
    IF handler = "direct_translate"
    THEN lower(strip(split(update.text, ":")[1]))
    ELSE lower(update.args[1])

\* the request passes the checks the handler makes before it looks the code up
ReachesLookup ==
    \/ handler = "direct_translate" /\ ~AllSpace(split(update.text, ":")[2])
    \/ handler = "translate_command_reply" /\ update.reply.exists

\* C2 as stated: the gateway is only called with a catalog key for target, and
\* a request whose code is no catalog key gets the invalid-code reply and no
\* gateway call.
C2_AsStated ==
    Handled =>
        /\ GatewayTargetsKnown
        /\ (NamesCode /\ RequestCode \notin LANGUAGES) =>
               Sent = <<ReplyInvalid(RequestCode)>> /\ GatewayCalls = <<>>

\* C2, amended: the gateway is only called with a catalog key for target; a
\* request whose code is no catalog key makes no gateway call and gets one
\* rejection: the invalid-code reply when it passes the checks made before the
\* look-up, the reply of the check it fails otherwise.
C2_KnownTargets ==
    Handled =>
        /\ GatewayTargetsKnown
        /\ (NamesCode /\ RequestCode \notin LANGUAGES) =>
               /\ GatewayCalls = <<>>
               /\ IF ReachesLookup
                  THEN Sent = <<ReplyInvalid(RequestCode)>>
                  ELSE Sent \in {<<Reply("empty")>>, <<Reply("needreply")>>}

C2_Witness ==
    /\ Handled
    /\ handler = "translate_command_reply"
    /\ update.args = <<<<"x">>>>
    /\ update.reply.text = <<"e">>
    /\ events = <<ReplyInvalid(<<"x">>)>>

(* ------------------------------- C3 ------------------------------------ *)

GatewayFailed == \E i \in 1..Len(GatewayCalls) : ~GatewayCalls[i].ok

\* C3: when the gateway's translate call fails, in direct_translate or in
\* translate_command_reply, the run sends exactly one message, the generic
\* translation-failed message, sends no translation, calls the gateway once,
\* and returns without an exception.
C3_GatewayFailure ==
    (Handled /\ GatewayFailed) =>
        /\ handler \in {"direct_translate", "translate_command_reply"}
        /\ Len(SendCalls) = 1
        /\ Len(Sent) = 1
        /\ Sent[1].kind = "failed"
        /\ Len(GatewayCalls) = 1
        /\ ~raised

C3_Witness ==
    /\ Handled
    /\ handler = "translate_command_reply"
    /\ events = <<TranslateCall(<<" ", "x">>, <<"e">>, FALSE),
                  [Reply("failed") EXCEPT !.quote = FALSE]>>

(* ------------------------------- C4 ------------------------------------ *)

\* ceil(a / b)
CeilDiv(a, b) == (a + b - 1) \div b

RECURSIVE Concat(_)
Concat(ss) == IF ss = <<>> THEN <<>> ELSE Head(ss) \o Concat(Tail(ss))

\* C4 as stated: whichever handler takes the message, the bot sends at most
\* one message.
C4_AsStated == Handled => Len(Sent) <= 1

\* C4, amended: start, direct_translate and translate_command_reply send at
\* most one message (and no handler, none); list_languages sends one message
\* per chunk of 25 catalog entries, in the catalog's order, which is more than
\* one message for a catalog of more than 25 entries.
C4_OnePerChunk ==
    Handled =>
        IF handler = "list_languages"
        THEN /\ Len(Sent) = CeilDiv(Cardinality(LANGUAGES), 25)
             /\ \A i \in 1..Len(Sent) :
                  Sent[i].kind = "languages" /\ Len(Sent[i].items) \in 1..25
             /\ Concat([i \in 1..Len(Sent) |-> Sent[i].items]) = LanguageItems
        ELSE Len(Sent) <= 1

C4_Witness ==
    /\ Handled
    /\ handler = "list_languages"
    /\ Len(Sent) > 1
    /\ Len(Sent[1].items) = 25

(* ------------------------------- C5 ------------------------------------ *)

PrivateTranslateCommand == update.command = "translate" /\ update.chat = "private"

\* C5 as stated: /translate sent in a private chat gets a corrective message,
\* and makes no gateway call and no deletion.
C5_AsStated ==
    (Handled /\ PrivateTranslateCommand) =>
        Len(Sent) >= 1 /\ GatewayCalls = <<>> /\ DeleteCalls = <<>>

\* C5, amended: /translate sent in a private chat is taken by no handler: the
\* bot sends nothing, makes no gateway call and deletes nothing.
C5_PrivateCommandIgnored ==
    (Handled /\ PrivateTranslateCommand) =>
        handler = None /\ events = <<>> /\ ~raised

C5_Witness ==
    /\ Handled /\ PrivateTranslateCommand
    /\ update.args = <<<<"e">>>>
    /\ update.reply.text = <<"e">>
    /\ events = <<>>

(* ------------------------------- C6 ------------------------------------ *)

\* a group message that replies to a message without text with
\* /translate <word>
ReplyToTextless ==
    /\ handler = "translate_command_reply"
    /\ update.reply.exists
    /\ update.reply.text = <<>>
    /\ update.args # <<>>

\* C6 as stated: /translate <code> in reply to a message without text gives
\* no output at all.
C6_AsStated == (Handled /\ ReplyToTextless) => events = <<>>

\* C6, amended: it gives no output when the code, lower-cased, is a catalog
\* key; another word gets the invalid-code reply first.
C6_TextlessTarget ==
    (Handled /\ ReplyToTextless) =>
        IF lower(update.args[1]) \in LANGUAGES
        THEN events = <<>> /\ ~raised
        ELSE events = <<ReplyInvalid(lower(update.args[1]))>>

C6_Witness ==
    /\ Handled /\ ReplyToTextless
    /\ update.args[1] = <<"E">>
    /\ events = <<>>

(* ------------------------------- C7 ------------------------------------ *)

DeleteFailed == \E i \in 1..Len(DeleteCalls) : ~DeleteCalls[i].ok

\* C7: when the translation was sent and delete_message fails, the run sends
\* nothing more: its one message is the translation, sent to the replied-to
\* message, the failed deletion is its last effect, and it returns without an
\* exception.
C7_DeleteFailureSwallowed ==
    (Handled /\ DeleteFailed) =>
        /\ handler = "translate_command_reply"
        /\ Len(SendCalls) = 1
        /\ Len(Sent) = 1
        /\ Sent[1].kind = "translation"
        /\ Sent[1].to = "original"
        /\ events[Len(events)] = DeleteCall(FALSE)
        /\ ~raised

C7_Witness ==
    /\ Handled
    /\ events = <<TranslateCall(<<"e">>, <<"e">>, TRUE),
                  ReplyTranslation("original", <<"e">>, <<"e">>, <<"x">>, TRUE),
                  DeleteCall(FALSE)>>

(* ------------------------------- C8 ------------------------------------ *)

\* a text message that is no command
PlainText == update.command = None /\ update.text # <<>>

\* C8: a text that is no command gets no reply, no gateway call and no
\* deletion in a group chat, whatever the text; a text without ':' gets a
\* reply in a private chat only, and there exactly the usage message.
C8_OrdinaryConversation ==
    (Handled /\ PlainText) =>
        /\ update.chat # "private" => handler = None /\ events = <<>>
        /\ ~Contains(update.text, ":") =>
             IF update.chat = "private"
             THEN events = <<Reply("usage")>>
             ELSE SendCalls = <<>>

C8_Witness ==
    /\ Handled /\ PlainText
    /\ update.chat = "supergroup"
    /\ update.text = <<"e", ":", " ", "x">>
    /\ events = <<>>

(* ------------------------------- C9 ------------------------------------ *)

\* C9: with TELEGRAM_TOKEN unset or empty, main registers no handler and never
\* starts polling, and no update is ever handled or answered.
C9_NoTokenNoBot ==
    TELEGRAM_TOKEN \in {None, ""} =>
        /\ handlers = <<>>
        /\ pc \notin {"polling", "handled"}
        /\ update = NoUpdate
        /\ events = <<>>

\* main ran with a translator and without a token, and returned
C9_Witness ==
    /\ TELEGRAM_TOKEN = ""
    /\ translator = "Translator"
    /\ pc = "exit"

(* ------------------------------- C10 ----------------------------------- *)

\* the run stopped at a check translate_command_reply makes before its try
ValidationFailure ==
    \/ ~update.reply.exists
    \/ update.args = <<>>
    \/ lower(update.args[1]) \notin LANGUAGES
    \/ update.reply.text = <<>>

\* C10: delete_message is called at most once in a run, by
\* translate_command_reply only, right after the translation was obtained
\* and its reply to the replied-to message was sent; it is not called when a
\* validation check fails, nor when the gateway call or the sending of the
\* translation fails.
C10_DeleteAfterReply ==
    Handled =>
        /\ Len(DeleteCalls) <= 1
        /\ \A i \in 1..Len(events) :
             events[i].op = "delete" =>
                 /\ handler = "translate_command_reply"
                 /\ i = 3
                 /\ events[1].op = "translate" /\ events[1].ok
                 /\ events[2].op = "send" /\ events[2].kind = "translation"
                 /\ events[2].to = "original" /\ events[2].ok
        /\ (handler = "translate_command_reply" /\ ValidationFailure) => DeleteCalls = <<>>
        /\ (\E i \in 1..Len(events) : events[i].op \in {"translate", "send"} /\ ~events[i].ok)
               => DeleteCalls = <<>>

C10_Witness ==
    /\ Handled
    /\ events = <<TranslateCall(<<"e">>, <<"e">>, TRUE),
                  ReplyTranslation("original", <<"e">>, <<"e">>, <<"e">>, TRUE),
                  DeleteCall(TRUE)>>

====
